---- MODULE Spec2Model ----
(***************************************************************************)
(* Lease / payment lifecycle of the rental-management backend.            *)
(*                                                                         *)
(* The persistent store is four collections (properties, users, leases,   *)
(* payments), each a map from document id to document.  Every action is   *)
(* one HTTP request handled to completion (requests are sequential here). *)
(* Time is counted in ticks, TicksPerDay ticks to a calendar day, tick 0   *)
(* being 2024-01-01T00:00 (dates are read in UTC).                         *)
(***************************************************************************)
EXTENDS Integers, Sequences, FiniteSets, TLC

VARIABLES properties, users, leases, payments,
          nextPropertyId, nextUserId, nextLeaseId, nextPaymentId,
          now, everCompleted, last, calls

store == <<properties, users, leases, payments>>
counters == <<nextPropertyId, nextUserId, nextLeaseId, nextPaymentId>>
vars == <<properties, users, leases, payments,
          nextPropertyId, nextUserId, nextLeaseId, nextPaymentId,
          now, everCompleted, last, calls>>

(***************************************************************************)
(* Bounds of the model.                                                    *)
(***************************************************************************)
MaxProperties == 2
MaxUsers == 5
MaxLeases == 2
MaxPayments == 3
TicksPerDay == 2

(***************************************************************************)
(* JavaScript values.                                                      *)
(***************************************************************************)
\* A null / unset reference (ObjectId fields), an undefined number, an unset string.
NoId == 0
Undef == -1
NoStr == ""
NoReceipt == <<>>

\* x || y on numbers: undefined and 0 are falsy.
OrElse(x, y) == IF x = Undef \/ x = 0 THEN y ELSE x

(***************************************************************************)
(* The Date built-in, as far as the code uses it.                          *)
(***************************************************************************)
IsLeap(y) == (y % 4 = 0 /\ y % 100 # 0) \/ y % 400 = 0

DaysInYear(y) == IF IsLeap(y) THEN 366 ELSE 365

\* m is a JavaScript month, 0..11.
DaysInMonth(y, m) ==
  IF m = 1 THEN (IF IsLeap(y) THEN 29 ELSE 28)
  ELSE IF m \in {3, 5, 8, 10} THEN 30 ELSE 31

RECURSIVE DaysBeforeYear(_)
DaysBeforeYear(y) == IF y <= 2024 THEN 0 ELSE DaysBeforeYear(y - 1) + DaysInYear(y - 1)

RECURSIVE DaysBeforeMonth(_, _)
DaysBeforeMonth(y, m) == IF m = 0 THEN 0 ELSE DaysBeforeMonth(y, m - 1) + DaysInMonth(y, m - 1)

\* The time value of (year, month, day-of-month, time within the day); a month past
\* 11 carries into the year and a day past the month's end carries into the next
\* month, as MakeDay does.
MakeTime(y, m, d, t) ==
  LET yy == y + (m \div 12)
      mm == m % 12
  IN (DaysBeforeYear(yy) + DaysBeforeMonth(yy, mm) + (d - 1)) * TicksPerDay + t

RECURSIVE YearFrom(_, _)
YearFrom(day, y) == IF day < DaysInYear(y) THEN <<y, day>> ELSE YearFrom(day - DaysInYear(y), y + 1)

RECURSIVE MonthFrom(_, _, _)
MonthFrom(y, dayOfYear, m) ==
  IF dayOfYear < DaysInMonth(y, m) THEN <<m, dayOfYear + 1>>
  ELSE MonthFrom(y, dayOfYear - DaysInMonth(y, m), m + 1)

getFullYear(t) == YearFrom(t \div TicksPerDay, 2024)[1]
getMonth(t) == MonthFrom(getFullYear(t), YearFrom(t \div TicksPerDay, 2024)[2], 0)[1]
getDate(t) == MonthFrom(getFullYear(t), YearFrom(t \div TicksPerDay, 2024)[2], 0)[2]
TimeInDay(t) == t % TicksPerDay

setDate(t, d) == MakeTime(getFullYear(t), getMonth(t), d, TimeInDay(t))
setMonth(t, m) == MakeTime(getFullYear(t), m, getDate(t), TimeInDay(t))

\* new Date("yyyy-mm-dd"), month written 1..12.
DateOf(y, month, d) == MakeTime(y, month - 1, d, 0)

(***************************************************************************)
(* Schemas                                                                 *)
(***************************************************************************)
PaymentMethods == {"cash", "check", "bank_transfer", "credit_card", "online", "other"}
PaymentTypes == {"rent", "security_deposit", "late_fee", "pet_deposit", "utility", "maintenance", "other"}
PaymentStatuses == {"pending", "completed", "failed", "refunded", "partial"}
LeaseStatuses == {"active", "expired", "terminated", "pending", "renewed"}

\* paymentSchema validation (required fields, enums, min).
ValidPayment(p) ==
  /\ p.tenant # NoId
  /\ p.property # NoId
  /\ p.amount # Undef /\ p.amount >= 0
  /\ p.paymentType \in PaymentTypes
  /\ p.paymentMethod \in PaymentMethods
  /\ p.status \in PaymentStatuses
  /\ p.dueDate # Undef

\* leaseSchema validation (required fields, enums, min / max).
ValidLease(l) ==
  /\ l.property # NoId
  /\ l.tenant # NoId
  /\ l.startDate # Undef
  /\ l.endDate # Undef
  /\ l.monthlyRent # Undef /\ l.monthlyRent >= 0
  /\ l.status \in LeaseStatuses
  /\ l.leaseTerms
  /\ l.paymentDueDate >= 1 /\ l.paymentDueDate <= 31

\* new Payment({...}): the schema's defaults for what the caller leaves out.
NewPayment(lease, tenant, property, amount, paymentType, paymentMethod, status, dueDate, paidDate, transactionId) ==
  [lease |-> lease, tenant |-> tenant, property |-> property, amount |-> amount,
   paymentType |-> paymentType, paymentMethod |-> paymentMethod, status |-> status,
   dueDate |-> dueDate, paidDate |-> paidDate, lateFee |-> 0,
   transactionId |-> transactionId, receiptNumber |-> NoReceipt]

\* A variant of the first due date that stays in the start month when the due day has
\* passed.
FirstDueInStartMonth(lease) == setDate(lease.startDate, lease.paymentDueDate)

(***************************************************************************)
(* Payment Schedule Generator                                              *)
(***************************************************************************)
\* currentDate after setDate(paymentDueDate) and the move to the next month when the
\* due day has passed in the start month.
FirstDue(lease) ==
  LET currentDate == setDate(lease.startDate, lease.paymentDueDate)
  IN IF currentDate < lease.startDate
     THEN setMonth(currentDate, getMonth(currentDate) + 1)
     ELSE currentDate

RECURSIVE ScheduleLoop(_, _, _)
ScheduleLoop(currentDate, endDate, dates) ==
  IF currentDate <= endDate
  THEN ScheduleLoop(setMonth(currentDate, getMonth(currentDate) + 1), endDate,
                    Append(dates, currentDate))
  ELSE dates

\* The due dates of the payments the while loop builds.
ScheduleDates(lease) == ScheduleLoop(FirstDue(lease), lease.endDate, <<>>)

\* The paymentMethod the schedule gives its rows.
SchedulePaymentMethod == "pending"

\* The payments array handed to insertMany.
BuildSchedule(leaseId, lease) ==
  LET dates == ScheduleDates(lease)
  IN [i \in 1..Len(dates) |->
        NewPayment(leaseId, lease.tenant, lease.property, lease.monthlyRent, "rent",
                   SchedulePaymentMethod, "pending", dates[i], Undef, NoStr)]

\* A variant of insertMany that writes document after document and stops at the first
\* invalid one: the first document of a rejected batch stays in the collection.
InsertManyOneByOne(coll, firstId, docs) ==
  IF \A i \in 1..Len(docs) : ValidPayment(docs[i])
  THEN [ok |-> TRUE,
        coll |-> [id \in DOMAIN coll \cup {firstId + i - 1 : i \in 1..Len(docs)} |->
                    IF id \in DOMAIN coll THEN coll[id] ELSE docs[id - firstId + 1]]]
  ELSE [ok |-> FALSE, coll |-> coll @@ (firstId :> docs[1])]

\* A variant of insertMany that stores the documents of a batch it reports as failed.
InsertManyUnvalidated(coll, firstId, docs) ==
  [ok |-> \A i \in 1..Len(docs) : ValidPayment(docs[i]),
   coll |-> [id \in DOMAIN coll \cup {firstId + i - 1 : i \in 1..Len(docs)} |->
               IF id \in DOMAIN coll THEN coll[id] ELSE docs[id - firstId + 1]]]

\* Payment.insertMany(docs): every document is validated first and one invalid
\* document fails the whole (ordered) batch; save hooks do not run.
InsertMany(coll, firstId, docs) ==
  IF \A i \in 1..Len(docs) : ValidPayment(docs[i])
  THEN [ok |-> TRUE,
        coll |-> [id \in DOMAIN coll \cup {firstId + i - 1 : i \in 1..Len(docs)} |->
                    IF id \in DOMAIN coll THEN coll[id] ELSE docs[id - firstId + 1]]]
  ELSE [ok |-> FALSE, coll |-> coll]

\* createPaymentSchedule(lease): a failure is caught and logged, never rethrown.
createPaymentSchedule(coll, firstId, leaseId, lease) ==
  InsertMany(coll, firstId, BuildSchedule(leaseId, lease))

(***************************************************************************)
(* The store after construction                                            *)
(***************************************************************************)
NewUser(role, email, propertyId) ==
  [role |-> role, email |-> email, isActive |-> TRUE, propertyId |-> propertyId, leaseId |-> NoId]

\* The requests that can be in flight together, and a request slot with no request:
\* pc is the await the handler stands at, the other fields are its local variables.
Requests == {1, 2}
Idle ==
  [op |-> "none", pc |-> "idle", code |-> 0, body |-> <<>>, id |-> NoId,
   property |-> <<>>, tenant |-> <<>>, payment |-> <<>>, doc |-> <<>>, lease |-> NoId,
   lateFee |-> 0, receipt |-> NoReceipt]

\* initializeUsers(): the four predefined accounts; no property, lease or payment yet,
\* no request in flight.
Init ==
  /\ properties = <<>>
  /\ users = <<NewUser("admin", "admin@rental.com", NoId),
               NewUser("property_manager", "manager@rental.com", NoId),
               NewUser("tenant", "tenant1@rental.com", NoId),
               NewUser("tenant", "tenant2@rental.com", NoId)>>
  /\ leases = <<>>
  /\ payments = <<>>
  /\ nextPropertyId = 1
  /\ nextUserId = 5
  /\ nextLeaseId = 1
  /\ nextPaymentId = 1
  /\ now = 0
  /\ everCompleted = {}
  /\ last = [op |-> "none", code |-> 0, id |-> NoId, err |-> "none", built |-> <<>>]
  /\ calls = [r \in Requests |-> Idle]

\* The answer of a handler that ran without another request in between.
Reply(op, code, id, err, built) ==
  /\ last' = [op |-> op, code |-> code, id |-> id, err |-> err, built |-> built]
  /\ UNCHANGED calls

\* A request that answers without writing to the store.
Answer(op, code, id, err) ==
  /\ Reply(op, code, id, err, <<>>)
  /\ UNCHANGED <<store, counters, now, everCompleted>>

\* A variant of doc.save() that leaves a path alone once another save has changed it.
SaveUnlessChanged(stored, loaded, doc) ==
  [f \in DOMAIN stored |->
     IF doc[f] # loaded[f] /\ stored[f] = loaded[f] THEN doc[f] ELSE stored[f]]

\* doc.save() writes the paths whose value differs from the loaded document;
\* the other paths keep what the store holds.
SaveModified(stored, loaded, doc) ==
  [f \in DOMAIN stored |-> IF doc[f] # loaded[f] THEN doc[f] ELSE stored[f]]

\* Model.findByIdAndUpdate(id, update) on a collection: no document, no effect.
UpdateById(coll, id, update) ==
  IF id \in DOMAIN coll
  THEN [coll EXCEPT ![id] = [f \in DOMAIN @ |-> IF f \in DOMAIN update THEN update[f] ELSE @[f]]]
  ELSE coll

Remove(coll, ids) == [id \in DOMAIN coll \ ids |-> coll[id]]

(***************************************************************************)
(* Properties                                                              *)
(***************************************************************************)
\* POST /api/properties
PostProperty(b) ==
  /\ nextPropertyId <= MaxProperties
  /\ properties' = properties @@ (nextPropertyId :>
       [status |-> IF b.status = NoStr THEN "available" ELSE b.status,
        currentTenant |-> NoId, currentLease |-> NoId, rentAmount |-> b.rentAmount])
  /\ nextPropertyId' = nextPropertyId + 1
  /\ Reply("postProperty", 201, nextPropertyId, "none", <<>>)
  /\ UNCHANGED <<users, leases, payments, nextUserId, nextLeaseId, nextPaymentId, now, everCompleted>>

\* DELETE /api/properties/:id
DeleteProperty(id) ==
  IF id \notin DOMAIN properties
  THEN Answer("deleteProperty", 404, NoId, "none")
  ELSE /\ properties' = Remove(properties, {id})
       /\ Reply("deleteProperty", 200, id, "none", <<>>)
       /\ UNCHANGED <<users, leases, payments, counters, now, everCompleted>>

(***************************************************************************)
(* Lease Lifecycle                                                         *)
(***************************************************************************)
\* The intervals test of the overlap query.
DatesOverlap(lease, startDate, endDate) ==
  lease.startDate <= endDate /\ lease.endDate >= startDate

\* A variant of the overlap query that forgets the pending leases.
OverlappingActiveOnly(coll, propertyId, startDate, endDate) ==
  {id \in DOMAIN coll :
     /\ coll[id].property = propertyId
     /\ coll[id].status = "active"
     /\ DatesOverlap(coll[id], startDate, endDate)}

\* Lease.findOne({property, status: {$in: [active, pending]}, $or: [...]}).
OverlappingLeases(coll, propertyId, startDate, endDate) ==
  {id \in DOMAIN coll :
     /\ coll[id].property = propertyId
     /\ coll[id].status \in {"active", "pending"}
     /\ DatesOverlap(coll[id], startDate, endDate)}

\* lateFee || { amount: 50, gracePeriod: 5 }, then the schema's defaults per field.
LateFeeOf(lateFee) ==
  IF lateFee.amount = Undef /\ lateFee.gracePeriod = Undef
  THEN [amount |-> 50, gracePeriod |-> 5]
  ELSE [amount |-> IF lateFee.amount = Undef THEN 0 ELSE lateFee.amount,
        gracePeriod |-> IF lateFee.gracePeriod = Undef THEN 5 ELSE lateFee.gracePeriod]

\* A variant of leaseData that takes the status of the request body when it has one.
LeaseDataBodyStatus(b, property) ==
  [property |-> b.propertyId,
   tenant |-> b.tenantId,
   startDate |-> b.startDate,
   endDate |-> b.endDate,
   monthlyRent |-> OrElse(b.monthlyRent, property.rentAmount),
   leaseTerms |-> b.leaseTerms,
   paymentDueDate |-> OrElse(b.paymentDueDate, 1),
   lateFee |-> LateFeeOf(b.lateFee),
   status |-> IF b.status = NoStr THEN "pending" ELSE b.status]

\* leaseData of POST /api/leases.
LeaseData(b, property) ==
  [property |-> b.propertyId,
   tenant |-> b.tenantId,
   startDate |-> b.startDate,
   endDate |-> b.endDate,
   monthlyRent |-> OrElse(b.monthlyRent, property.rentAmount),
   leaseTerms |-> b.leaseTerms,
   paymentDueDate |-> OrElse(b.paymentDueDate, 1),
   lateFee |-> LateFeeOf(b.lateFee),
   status |-> "pending"]

\* The property of a new lease: currentLease, currentTenant, status.
OccupyProperty(property, leaseId, tenantId) ==
  [property EXCEPT !.currentLease = leaseId, !.currentTenant = tenantId, !.status = "occupied"]

\* The tenant of a new lease: leaseId, propertyId.
AssignTenant(tenant, leaseId, propertyId) ==
  [tenant EXCEPT !.leaseId = leaseId, !.propertyId = propertyId]

\* POST /api/leases
PostLease(b) ==
  IF b.propertyId \notin DOMAIN properties
  THEN Answer("postLease", 400, NoId, "property")
  ELSE IF ~(b.tenantId \in DOMAIN users /\ users[b.tenantId].role = "tenant")
  THEN Answer("postLease", 400, NoId, "tenant")
  ELSE IF OverlappingLeases(leases, b.propertyId, b.startDate, b.endDate) # {}
  THEN Answer("postLease", 400, NoId, "overlap")
  ELSE
    LET leaseData == LeaseData(b, properties[b.propertyId])
        property == properties[b.propertyId]
        tenant == users[b.tenantId]
        schedule == createPaymentSchedule(payments, nextPaymentId, nextLeaseId, leaseData)
        built == BuildSchedule(nextLeaseId, leaseData)
    IN IF ~ValidLease(leaseData)
       THEN Answer("postLease", 500, NoId, "validation")
       ELSE /\ nextLeaseId <= MaxLeases
            /\ leases' = leases @@ (nextLeaseId :> leaseData)
            /\ nextLeaseId' = nextLeaseId + 1
            /\ properties' = [properties EXCEPT ![b.propertyId] =
                 SaveModified(@, property, OccupyProperty(property, nextLeaseId, b.tenantId))]
            /\ users' = [users EXCEPT ![b.tenantId] =
                 SaveModified(@, tenant, AssignTenant(tenant, nextLeaseId, b.propertyId))]
            /\ payments' = schedule.coll
            /\ nextPaymentId' = IF schedule.ok THEN nextPaymentId + Len(built) ELSE nextPaymentId
            /\ Reply("postLease", 201, nextLeaseId,
                     IF schedule.ok THEN "none" ELSE "schedule", built)
            /\ UNCHANGED <<nextPropertyId, nextUserId, now, everCompleted>>

\* PUT /api/leases/:id : the body's fields replace the lease's (update validators run).
PutLease(id, b) ==
  IF id \notin DOMAIN leases
  THEN Answer("putLease", 404, NoId, "none")
  ELSE LET updated == [leases[id] EXCEPT
                         !.status = IF b.status = NoStr THEN @ ELSE b.status,
                         !.startDate = IF b.startDate = Undef THEN @ ELSE b.startDate,
                         !.endDate = IF b.endDate = Undef THEN @ ELSE b.endDate]
       IN IF ~ValidLease(updated)
          THEN Answer("putLease", 500, NoId, "validation")
          ELSE /\ leases' = [leases EXCEPT ![id] = updated]
               /\ Reply("putLease", 200, id, "none", <<>>)
               /\ UNCHANGED <<properties, users, payments, counters, now, everCompleted>>

\* A variant of the activation that accepts pending leases only.
ActivatePendingOnly(id) ==
  IF id \notin DOMAIN leases
  THEN Answer("activateLease", 404, NoId, "none")
  ELSE IF leases[id].status # "pending"
  THEN Answer("activateLease", 400, NoId, "status")
  ELSE /\ leases' = [leases EXCEPT ![id].status = "active"]
       /\ Reply("activateLease", 200, id, "none", <<>>)
       /\ UNCHANGED <<properties, users, payments, counters, now, everCompleted>>

\* PUT /api/leases/:id/activate
ActivateLease(id) ==
  IF id \notin DOMAIN leases
  THEN Answer("activateLease", 404, NoId, "none")
  ELSE /\ leases' = [leases EXCEPT ![id].status = "active"]
       /\ Reply("activateLease", 200, id, "none", <<>>)
       /\ UNCHANGED <<properties, users, payments, counters, now, everCompleted>>

\* A variant of the property update that leaves the status as it is.
VacateKeepStatus == [currentTenant |-> NoId, currentLease |-> NoId]

\* The update the terminate and delete handlers apply to the lease's property.
VacateProperty == [currentTenant |-> NoId, currentLease |-> NoId, status |-> "available"]

\* The update the terminate and delete handlers apply to the lease's tenant.
ReleaseTenant == [propertyId |-> NoId, leaseId |-> NoId]

\* A variant of the termination that also deletes the lease's pending payments.
TerminateAndCancel(id) ==
  IF id \notin DOMAIN leases
  THEN Answer("terminateLease", 404, NoId, "none")
  ELSE /\ leases' = [leases EXCEPT ![id].status = "terminated"]
       /\ properties' = UpdateById(properties, leases[id].property, VacateProperty)
       /\ users' = UpdateById(users, leases[id].tenant, ReleaseTenant)
       /\ payments' = Remove(payments, {p \in DOMAIN payments :
                          payments[p].lease = id /\ payments[p].status = "pending"})
       /\ Reply("terminateLease", 200, id, "none", <<>>)
       /\ UNCHANGED <<counters, now, everCompleted>>

\* PUT /api/leases/:id/terminate
TerminateLease(id) ==
  IF id \notin DOMAIN leases
  THEN Answer("terminateLease", 404, NoId, "none")
  ELSE /\ leases' = [leases EXCEPT ![id].status = "terminated"]
       /\ properties' = UpdateById(properties, leases[id].property, VacateProperty)
       /\ users' = UpdateById(users, leases[id].tenant, ReleaseTenant)
       /\ Reply("terminateLease", 200, id, "none", <<>>)
       /\ UNCHANGED <<payments, counters, now, everCompleted>>

\* A variant of the payments filter that keeps the settled payments of the lease.
PendingPaymentsOfLease(coll, leaseId) ==
  {pid \in DOMAIN coll : coll[pid].lease = leaseId /\ coll[pid].status = "pending"}

\* Payment.deleteMany({ lease: leaseId }).
PaymentsOfLease(coll, leaseId) == {pid \in DOMAIN coll : coll[pid].lease = leaseId}

\* DELETE /api/leases/:id ($unset leaves the reference unset, read as null).
DeleteLease(id) ==
  IF id \notin DOMAIN leases
  THEN Answer("deleteLease", 404, NoId, "none")
  ELSE /\ properties' = UpdateById(properties, leases[id].property, VacateProperty)
       /\ users' = UpdateById(users, leases[id].tenant, ReleaseTenant)
       /\ payments' = Remove(payments, PaymentsOfLease(payments, id))
       /\ leases' = Remove(leases, {id})
       /\ Reply("deleteLease", 200, id, "none", <<>>)
       /\ UNCHANGED <<counters, now, everCompleted>>

(***************************************************************************)
(* Tenants                                                                 *)
(***************************************************************************)
\* POST /api/tenants
PostTenant(b) ==
  IF \E u \in DOMAIN users : users[u].email = b.email
  THEN Answer("postTenant", 400, NoId, "email")
  ELSE IF b.propertyId # NoId /\ b.propertyId \notin DOMAIN properties
  THEN Answer("postTenant", 400, NoId, "property")
  ELSE /\ nextUserId <= MaxUsers
       /\ users' = users @@ (nextUserId :> NewUser("tenant", b.email, b.propertyId))
       /\ nextUserId' = nextUserId + 1
       /\ properties' =
            IF b.propertyId # NoId /\ properties[b.propertyId].status = "available"
            THEN [properties EXCEPT ![b.propertyId] =
                    [@ EXCEPT !.currentTenant = nextUserId, !.status = "occupied"]]
            ELSE properties
       /\ Reply("postTenant", 201, nextUserId, "none", <<>>)
       /\ UNCHANGED <<leases, payments, nextPropertyId, nextLeaseId, nextPaymentId, now, everCompleted>>

\* PUT /api/tenants/:id by a manager: the property assignment.
PutTenant(id, b) ==
  IF ~(id \in DOMAIN users /\ users[id].role = "tenant")
  THEN Answer("putTenant", 404, NoId, "none")
  ELSE IF b.propertyId = NoId
  THEN Answer("putTenant", 200, id, "none")
  ELSE IF b.propertyId \notin DOMAIN properties
  THEN Answer("putTenant", 400, NoId, "property")
  ELSE LET tenant == users[id]
           property == properties[b.propertyId]
           afterOld == IF tenant.propertyId # NoId
                       THEN UpdateById(properties, tenant.propertyId,
                                       [currentTenant |-> NoId, status |-> "available"])
                       ELSE properties
       IN /\ properties' = [afterOld EXCEPT ![b.propertyId] =
               SaveModified(@, property,
                            [property EXCEPT !.currentTenant = id, !.status = "occupied"])]
          /\ users' = [users EXCEPT ![id].propertyId = b.propertyId]
          /\ Reply("putTenant", 200, id, "none", <<>>)
          /\ UNCHANGED <<leases, payments, counters, now, everCompleted>>

\* DELETE /api/tenants/:id : the tenant is deactivated, its active leases terminated.
DeleteTenant(id) ==
  IF ~(id \in DOMAIN users /\ users[id].role = "tenant")
  THEN Answer("deleteTenant", 404, NoId, "none")
  ELSE /\ users' = [users EXCEPT ![id].isActive = FALSE]
       /\ properties' =
            IF users[id].propertyId # NoId
            THEN UpdateById(properties, users[id].propertyId,
                            [currentTenant |-> NoId, status |-> "available"])
            ELSE properties
       /\ leases' = [l \in DOMAIN leases |->
                       IF leases[l].tenant = id /\ leases[l].status = "active"
                       THEN [leases[l] EXCEPT !.status = "terminated"]
                       ELSE leases[l]]
       /\ Reply("deleteTenant", 200, id, "none", <<>>)
       /\ UNCHANGED <<payments, counters, now, everCompleted>>

(***************************************************************************)
(* Payment Ledger                                                          *)
(***************************************************************************)
\* paymentSchema.pre('save'): the receipt number, made of Date.now() and a random part.
ReceiptOf(time, random) == <<"RCP", time, random>>

\* What Math.random() can give, up to renaming: a random part that a stored receipt
\* of this instant already holds, or the least one that none holds (receipts are
\* only ever compared for equality).
Randoms(coll, time) ==
  LET used == {coll[id].receiptNumber[3] : id \in {i \in DOMAIN coll :
                  coll[i].receiptNumber # NoReceipt /\ coll[i].receiptNumber[2] = time}}
  IN used \cup {CHOOSE n \in 0..Cardinality(used) : n \notin used}

\* A variant of the pre-save hook without the test for an existing receiptNumber.
PreSaveAlways(doc, time, random) ==
  IF doc.status = "completed"
  THEN [doc EXCEPT !.receiptNumber = ReceiptOf(time, random)]
  ELSE doc

\* paymentSchema.pre('save'): a completed payment without receiptNumber gets one.
PreSave(doc, time, random) ==
  IF doc.receiptNumber = NoReceipt /\ doc.status = "completed"
  THEN [doc EXCEPT !.receiptNumber = ReceiptOf(time, random)]
  ELSE doc

\* The unique sparse indexes on transactionId and receiptNumber: the document with
\* id `id` cannot be written when another document holds one of its values.
DuplicateKey(coll, id, doc) ==
  IF \E other \in DOMAIN coll \ {id} :
       doc.transactionId # NoStr /\ coll[other].transactionId = doc.transactionId
  THEN "duplicate_transactionId"
  ELSE IF \E other \in DOMAIN coll \ {id} :
       doc.receiptNumber # NoReceipt /\ coll[other].receiptNumber = doc.receiptNumber
  THEN "duplicate_receiptNumber"
  ELSE "none"

\* doc.save() on the payments collection: validation, the pre-save hook, the write.
\* The answer is the error ("none" when written) and the collection afterwards.
SavePayment(coll, id, doc, time, random) ==
  LET hooked == PreSave(doc, time, random)
  IN IF ~ValidPayment(doc) THEN [err |-> "validation", coll |-> coll]
     ELSE IF DuplicateKey(coll, id, hooked) # "none"
     THEN [err |-> DuplicateKey(coll, id, hooked), coll |-> coll]
     ELSE [err |-> "none",
           coll |-> [i \in DOMAIN coll \cup {id} |-> IF i = id THEN hooked ELSE coll[i]]]

Completed(coll) == {id \in DOMAIN coll : coll[id].status = "completed"}

\* POST /api/payments
PostPayment(b) ==
  \E random \in Randoms(payments, now) :
  IF b.leaseId # NoId /\ b.leaseId \notin DOMAIN leases
  THEN Answer("postPayment", 400, NoId, "lease")
  ELSE IF b.leaseId = NoId /\ (b.propertyId = NoId \/ b.tenantId = NoId)
  THEN Answer("postPayment", 400, NoId, "required")
  ELSE
    LET paymentData ==
          NewPayment(b.leaseId,
                     IF b.leaseId # NoId THEN leases[b.leaseId].tenant ELSE b.tenantId,
                     IF b.leaseId # NoId THEN leases[b.leaseId].property ELSE b.propertyId,
                     b.amount, b.paymentType, b.paymentMethod,
                     IF b.status = NoStr THEN "pending" ELSE b.status,
                     b.dueDate,
                     IF b.paidDate = Undef \/ b.paidDate = 0 THEN Undef ELSE b.paidDate,
                     NoStr)
        saved == SavePayment(payments, nextPaymentId, paymentData, now, random)
    IN IF saved.err # "none"
       THEN Answer("postPayment", 500, NoId, saved.err)
       ELSE /\ nextPaymentId <= MaxPayments
            /\ payments' = saved.coll
            /\ nextPaymentId' = nextPaymentId + 1
            /\ everCompleted' = everCompleted \cup Completed(saved.coll)
            /\ Reply("postPayment", 201, nextPaymentId, "none", <<>>)
            /\ UNCHANGED <<properties, users, leases, nextPropertyId, nextUserId, nextLeaseId, now>>

\* PUT /api/payments/:id
PutPayment(id, b) ==
  \E random \in Randoms(payments, now) :
  IF id \notin DOMAIN payments
  THEN Answer("putPayment", 404, NoId, "none")
  ELSE IF b.leaseId # NoId /\ b.leaseId # payments[id].lease /\ b.leaseId \notin DOMAIN leases
  THEN Answer("putPayment", 400, NoId, "lease")
  ELSE
    LET payment == payments[id]
        relinked == IF b.leaseId # NoId /\ b.leaseId # payment.lease
                    THEN [payment EXCEPT !.lease = b.leaseId,
                                         !.tenant = leases[b.leaseId].tenant,
                                         !.property = leases[b.leaseId].property]
                    ELSE payment
        doc == [relinked EXCEPT
                  !.amount = IF b.amount = Undef THEN @ ELSE b.amount,
                  !.dueDate = IF b.dueDate = Undef THEN @ ELSE b.dueDate,
                  !.paymentType = IF b.paymentType = NoStr THEN @ ELSE b.paymentType,
                  !.paymentMethod = IF b.paymentMethod = NoStr THEN @ ELSE b.paymentMethod]
        saved == SavePayment(payments, id, doc, now, random)
    IN IF saved.err # "none"
       THEN Answer("putPayment", 500, NoId, saved.err)
       ELSE /\ payments' = saved.coll
            /\ everCompleted' = everCompleted \cup Completed(saved.coll)
            /\ Reply("putPayment", 200, id, "none", <<>>)
            /\ UNCHANGED <<properties, users, leases, counters, now>>

\* DELETE /api/payments/:id
DeletePayment(id) ==
  IF id \notin DOMAIN payments
  THEN Answer("deletePayment", 404, NoId, "none")
  ELSE /\ payments' = Remove(payments, {id})
       /\ Reply("deletePayment", 200, id, "none", <<>>)
       /\ UNCHANGED <<properties, users, leases, counters, now, everCompleted>>

(***************************************************************************)
(* Overdue / Late-Fee Calculator and payment settlement                    *)
(***************************************************************************)
\* Math.ceil(a / b) for a >= 0, b > 0.
Ceil(a, b) == (a + b - 1) \div b

\* A variant of the assessment that charges the route's default fee (50 after 5 days)
\* when the payment has no lease.
AssessDefaultLateFee(time, payment, leaseColl) ==
  IF time > payment.dueDate
  THEN LET lateFee == IF payment.lease \in DOMAIN leaseColl
                      THEN leaseColl[payment.lease].lateFee
                      ELSE [amount |-> 50, gracePeriod |-> 5]
           daysLate == Ceil(time - payment.dueDate, TicksPerDay)
       IN IF daysLate > lateFee.gracePeriod THEN lateFee.amount ELSE 0
  ELSE 0

\* The late fee of a settlement at `time`: the lease's fee once the payment is more
\* whole days late than the grace period; 0 without a lease.
AssessLateFee(time, payment, leaseColl) ==
  IF time > payment.dueDate /\ payment.lease \in DOMAIN leaseColl
  THEN LET lease == leaseColl[payment.lease]
           daysLate == Ceil(time - payment.dueDate, TicksPerDay)
       IN IF daysLate > lease.lateFee.gracePeriod THEN lease.lateFee.amount ELSE 0
  ELSE 0

\* transactionId + '_LATE' : an undefined transactionId reads "undefined".
LateTransactionId(transactionId) ==
  (IF transactionId = NoStr THEN "undefined" ELSE transactionId) \o "_LATE"

\* The fields the pay handler sets on the payment.
Settle(payment, b, time, lateFee) ==
  [payment EXCEPT !.status = "completed",
                  !.paidDate = time,
                  !.paymentMethod = b.paymentMethod,
                  !.transactionId = b.transactionId,
                  !.lateFee = lateFee,
                  !.amount = OrElse(b.paidAmount, @)]

\* The synthetic late-fee row.
LateFeePayment(payment, b, time, lateFee) ==
  NewPayment(payment.lease, payment.tenant, payment.property, lateFee, "late_fee",
             b.paymentMethod, "completed", time, time, LateTransactionId(b.transactionId))

\* PUT /api/payments/:id/pay
PayPayment(id, b) ==
  IF id \notin DOMAIN payments
  THEN Answer("payPayment", 404, NoId, "none")
  ELSE
    LET payment == payments[id]
        lateFee == AssessLateFee(now, payment, leases)
    IN \E random \in Randoms(payments, now) :
       LET saved == SavePayment(payments, id, Settle(payment, b, now, lateFee), now, random)
       IN \E randomLate \in Randoms(saved.coll, now) :
          LET savedLate == SavePayment(saved.coll, nextPaymentId,
                                       LateFeePayment(payment, b, now, lateFee), now, randomLate)
          IN IF saved.err # "none"
             THEN Answer("payPayment", 500, NoId, saved.err)
             ELSE IF lateFee > 0 /\ savedLate.err # "none"
             THEN /\ payments' = saved.coll
                  /\ everCompleted' = everCompleted \cup Completed(saved.coll)
                  /\ Reply("payPayment", 500, id, "late_" \o savedLate.err, <<>>)
                  /\ UNCHANGED <<properties, users, leases, counters, now>>
             ELSE IF lateFee > 0
             THEN /\ nextPaymentId <= MaxPayments
                  /\ payments' = savedLate.coll
                  /\ nextPaymentId' = nextPaymentId + 1
                  /\ everCompleted' = everCompleted \cup Completed(savedLate.coll)
                  /\ Reply("payPayment", 200, id, "none", <<>>)
                  /\ UNCHANGED <<properties, users, leases, nextPropertyId, nextUserId, nextLeaseId, now>>
             ELSE /\ payments' = saved.coll
                  /\ everCompleted' = everCompleted \cup Completed(saved.coll)
                  /\ Reply("payPayment", 200, id, "none", <<>>)
                  /\ UNCHANGED <<properties, users, leases, counters, now>>

\* Time passes between requests.
Tick(time) ==
  /\ time > now
  /\ now' = time
  /\ UNCHANGED <<store, counters, everCompleted, last, calls>>

(***************************************************************************)
(* Requests                                                                *)
(***************************************************************************)
PropertyIds == 1..MaxProperties
UserIds == 1..MaxUsers
LeaseIds == 1..MaxLeases
PaymentIds == 1..MaxPayments

NoLateFee == [amount |-> Undef, gracePeriod |-> Undef]

LeaseBody(propertyId, tenantId, dates, monthlyRent, leaseTerms, paymentDueDate, lateFee, status) ==
  [propertyId |-> propertyId, tenantId |-> tenantId, startDate |-> dates[1], endDate |-> dates[2],
   monthlyRent |-> monthlyRent, leaseTerms |-> leaseTerms, paymentDueDate |-> paymentDueDate,
   lateFee |-> lateFee, status |-> status]

PropertyBodies == [status : {NoStr, "maintenance"}, rentAmount : {900}]

\* Two lease terms that do not overlap (a term overlaps itself).
FirstTerm == <<DateOf(2024, 1, 15), DateOf(2024, 6, 15)>>
SecondTerm == <<DateOf(2024, 7, 1), DateOf(2024, 12, 1)>>
Terms == {FirstTerm, SecondTerm}

LeaseBodies ==
  {LeaseBody(p, t, d, Undef, terms, Undef, NoLateFee, st) :
     p \in PropertyIds, t \in {2, 3, 4}, d \in Terms, terms \in BOOLEAN, st \in {NoStr, "active"}}

LeaseUpdates ==
  {[status |-> "pending", startDate |-> Undef, endDate |-> Undef],
   [status |-> NoStr, startDate |-> Undef, endDate |-> DateOf(2024, 12, 1)]}

(***************************************************************************)
(* Spec: the lease lifecycle with the property and tenant cross-references *)
(***************************************************************************)
Next ==
  \/ \E b \in PropertyBodies : PostProperty(b)
  \/ \E b \in LeaseBodies : PostLease(b)
  \/ \E id \in LeaseIds, b \in LeaseUpdates : PutLease(id, b)
  \/ \E id \in LeaseIds : ActivateLease(id)
  \/ \E id \in LeaseIds : TerminateLease(id)
  \/ \E id \in LeaseIds : DeleteLease(id)

Spec == Init /\ [][Next]_vars

(***************************************************************************)
(* TenantSpec: leases together with the tenant routes                      *)
(***************************************************************************)
TenantBodies == [email : {"tenant1@rental.com", "tenant3@rental.com"}, propertyId : {NoId} \cup PropertyIds]

TenantUpdates == [propertyId : {NoId} \cup PropertyIds]

\* The manager (no tenant), the first predefined tenant and the first created one.
TenantActors == {2, 3, 5}

TenantLeaseBodies ==
  {LeaseBody(1, t, FirstTerm, Undef, TRUE, Undef, NoLateFee, NoStr) : t \in {2, 3}}

TenantNext ==
  \/ \E b \in PropertyBodies : PostProperty(b)
  \/ \E b \in TenantLeaseBodies : PostLease(b)
  \/ \E id \in LeaseIds : ActivateLease(id)
  \/ \E id \in LeaseIds : TerminateLease(id)
  \/ \E id \in LeaseIds : DeleteLease(id)
  \/ \E b \in TenantBodies : PostTenant(b)
  \/ \E id \in TenantActors, b \in TenantUpdates : PutTenant(id, b)
  \/ \E id \in TenantActors : DeleteTenant(id)

TenantSpec == Init /\ [][TenantNext]_vars

(***************************************************************************)
(* ScheduleSpec: leases of many terms and due days on one property         *)
(***************************************************************************)
ScheduleStarts ==
  {DateOf(2024, 1, 15), DateOf(2024, 1, 15) + 1, DateOf(2024, 1, 31), DateOf(2024, 2, 10),
   DateOf(2024, 11, 15)}
ScheduleEnds == {DateOf(2024, 1, 20), DateOf(2024, 6, 15), DateOf(2025, 2, 15)}

\* paymentDueDate of the request body: the days of a month, and 0, 32 and a negative number.
DueDays == {-2} \cup 0..32

ScheduleLeaseBodies ==
  {LeaseBody(1, 3, <<s, e>>, rent, TRUE, due, NoLateFee, NoStr) :
     s \in ScheduleStarts, e \in ScheduleEnds, rent \in {Undef, 1000}, due \in DueDays}

ScheduleNext ==
  \/ (properties = <<>> /\ PostProperty([status |-> NoStr, rentAmount |-> 900]))
  \/ \E b \in ScheduleLeaseBodies : DOMAIN leases = {} /\ PostLease(b)
  \/ \E id \in LeaseIds : DeleteLease(id)

ScheduleSpec == Init /\ [][ScheduleNext]_vars

(***************************************************************************)
(* SettlementSpec: payments of one lease and their settlement over time    *)
(***************************************************************************)
PaymentBody(leaseId, propertyId, tenantId, amount, paymentMethod, dueDate, paidDate, status) ==
  [leaseId |-> leaseId, propertyId |-> propertyId, tenantId |-> tenantId, amount |-> amount,
   paymentType |-> "rent", paymentMethod |-> paymentMethod, dueDate |-> dueDate,
   paidDate |-> paidDate, status |-> status]

\* The instants requests arrive at: the due date, five days later, five and a bit.
DueDate == DateOf(2024, 1, 1)
LateInstant == DueDate + 5 * TicksPerDay + 1
Instants == {DueDate, DueDate + 5 * TicksPerDay, LateInstant}

\* A lease that takes the route's default late fee (amount 50, grace period 5).
DefaultLeaseBody == LeaseBody(1, 3, FirstTerm, Undef, TRUE, Undef, NoLateFee, NoStr)

SettlementPaymentBodies ==
  {PaymentBody(1, NoId, NoId, 1000, "cash", DueDate, Undef, st) : st \in {NoStr, "completed"}}

\* An update that names the lease the payment already has and changes no field.
SameLeaseUpdate ==
  [leaseId |-> 1, amount |-> Undef, dueDate |-> Undef, paymentType |-> NoStr, paymentMethod |-> NoStr]

PaymentUpdates ==
  [leaseId : LeaseIds, amount : {Undef}, dueDate : {Undef}, paymentType : {NoStr}, paymentMethod : {NoStr}]

PayBodies == [paymentMethod : {"cash"}, transactionId : {NoStr, "TX1"}, paidAmount : {Undef}]

SettlementNext ==
  \/ (properties = <<>> /\ PostProperty([status |-> NoStr, rentAmount |-> 900]))
  \/ PostLease(DefaultLeaseBody)
  \/ \E b \in SettlementPaymentBodies : PostPayment(b)
  \/ \E id \in PaymentIds : PutPayment(id, SameLeaseUpdate)
  \/ \E id \in PaymentIds, b \in PayBodies : PayPayment(id, b)
  \/ \E t \in Instants : Tick(t)

SettlementSpec == Init /\ [][SettlementNext]_vars

(***************************************************************************)
(* LedgerSpec: leases ended or deleted while payments refer to them        *)
(***************************************************************************)
LedgerLeaseBodies ==
  {LeaseBody(1, t, FirstTerm, Undef, TRUE, Undef, NoLateFee, NoStr) : t \in {3, 4}}

LedgerPaymentBodies ==
  {PaymentBody(l, NoId, NoId, 1000, "cash", DueDate, Undef, NoStr) : l \in LeaseIds}

LedgerNext ==
  \/ (properties = <<>> /\ PostProperty([status |-> NoStr, rentAmount |-> 900]))
  \/ \E b \in LedgerLeaseBodies : PostLease(b)
  \/ \E id \in LeaseIds : TerminateLease(id)
  \/ \E id \in LeaseIds : DeleteLease(id)
  \/ \E b \in LedgerPaymentBodies : PostPayment(b)
  \/ \E id \in PaymentIds, b \in PaymentUpdates : PutPayment(id, b)
  \/ \E id \in PaymentIds : PayPayment(id, [paymentMethod |-> "cash", transactionId |-> NoStr, paidAmount |-> Undef])

LedgerSpec == Init /\ [][LedgerNext]_vars

(***************************************************************************)
(* Lease overlap (C1, C2)                                                  *)
(***************************************************************************)
\* C1: on every property, no two distinct leases whose status is active or pending
\* have overlapping [startDate, endDate] intervals.
C1_NoOverlappingLeases ==
  \A a, b \in DOMAIN leases :
    (/\ a # b
     /\ leases[a].property = leases[b].property
     /\ leases[a].status \in {"active", "pending"}
     /\ leases[b].status \in {"active", "pending"})
    => ~(leases[a].startDate <= leases[b].endDate /\ leases[a].endDate >= leases[b].startDate)

\* C2: POST /leases for a property that has an active or pending lease whose interval
\* overlaps the requested one is answered with 400, and no property, user, lease or
\* payment is created or changed.
C2_OverlapRejected ==
  [][\/ last'.op # "postLease"
     \/ (last'.code = 400 /\ UNCHANGED store)
     \/ \A b \in LeaseBodies :
          ~(/\ \E id \in DOMAIN leases :
                 /\ leases[id].property = b.propertyId
                 /\ leases[id].status \in {"active", "pending"}
                 /\ leases[id].startDate <= b.endDate
                 /\ leases[id].endDate >= b.startDate
            /\ PostLease(b))]_vars

\* A POST /leases was refused because of an overlapping lease.
C2_Witness == last.op = "postLease" /\ last.code = 400 /\ last.err = "overlap"

(***************************************************************************)
(* Payment schedule (C3, C4)                                               *)
(***************************************************************************)
\* C3: after a successful POST /leases the store holds, for every due date of the
\* lease's generated schedule, exactly one rent payment of the lease with status
\* pending and amount = lease.monthlyRent; for the lease from 2024-01-15 to 2024-06-15
\* with paymentDueDate 1 and monthlyRent 1000 the due dates are 2024-02-01, 03-01,
\* 04-01, 05-01 and 06-01.
C3_SchedulePersisted ==
  (last.op = "postLease" /\ last.code = 201) =>
    LET lease == leases[last.id]
        rent(dueDate) == {p \in DOMAIN payments :
                            /\ payments[p].lease = last.id
                            /\ payments[p].paymentType = "rent"
                            /\ payments[p].status = "pending"
                            /\ payments[p].amount = lease.monthlyRent
                            /\ payments[p].dueDate = dueDate}
    IN /\ \A i \in DOMAIN last.built : Cardinality(rent(last.built[i].dueDate)) = 1
       /\ (/\ lease.startDate = DateOf(2024, 1, 15)
           /\ lease.endDate = DateOf(2024, 6, 15)
           /\ lease.paymentDueDate = 1
           /\ lease.monthlyRent = 1000)
          => {payments[p].dueDate : p \in PaymentsOfLease(payments, last.id)}
               = {DateOf(2024, m, 1) : m \in 2..6}

\* C4: for a lease with startDate <= endDate the due dates built by
\* createPaymentSchedule are floor(monthsBetween(firstDue, endDate)) + 1 many (none
\* when firstDue > endDate), in consecutive calendar months, each on day-of-month
\* paymentDueDate.
C4_ScheduleDates ==
  (last.op = "postLease" /\ last.code = 201 /\ leases[last.id].startDate <= leases[last.id].endDate) =>
    LET lease == leases[last.id]
        first == FirstDue(lease)
        monthIndex(t) == 12 * getFullYear(t) + getMonth(t)
        monthsBetween == monthIndex(lease.endDate) - monthIndex(first)
                           - (IF getDate(lease.endDate) < getDate(first) THEN 1 ELSE 0)
        due(i) == last.built[i].dueDate
    IN /\ Len(last.built) = IF first > lease.endDate THEN 0 ELSE monthsBetween + 1
       /\ \A i \in DOMAIN last.built : getDate(due(i)) = lease.paymentDueDate
       /\ \A i \in DOMAIN last.built :
            i > 1 => monthIndex(due(i)) = monthIndex(due(i - 1)) + 1

(***************************************************************************)
(* Settlement (C5, C6)                                                     *)
(***************************************************************************)
\* C5: PUT /payments/:id/pay on a payment linked to a lease, the request failing
\* neither on a transactionId of the body that another payment holds nor on a
\* receipt number drawn twice: settled more than lease.lateFee.gracePeriod days after
\* the due date it creates exactly one more payment, of type late_fee and amount
\* lease.lateFee.amount, and sets payment.lateFee to that amount; settled earlier it
\* creates no payment and payment.lateFee is 0.
C5_LateFeeOnSettlement ==
  [][\A id \in PaymentIds, b \in PayBodies :
       (/\ id \in DOMAIN payments
        /\ payments[id].lease \in DOMAIN leases
        /\ PayPayment(id, b)
        /\ last'.err \notin {"duplicate_transactionId", "duplicate_receiptNumber",
                             "late_duplicate_receiptNumber"})
       => LET lease == leases[payments[id].lease]
              created == DOMAIN payments' \ DOMAIN payments
          IN IF now - payments[id].dueDate > lease.lateFee.gracePeriod * TicksPerDay
             THEN /\ Cardinality(created) = 1
                  /\ \A p \in created : /\ payments'[p].paymentType = "late_fee"
                                        /\ payments'[p].amount = lease.lateFee.amount
                  /\ payments'[id].lateFee = lease.lateFee.amount
             ELSE /\ created = {}
                  /\ payments'[id].lateFee = 0]_vars

\* C6: a payment that never had status completed has no receiptNumber; a payment that
\* is or was completed has one; a receiptNumber once set never changes, a repeated
\* pay included; no two payments share a receiptNumber.
C6_ReceiptOnce ==
  [][/\ \A p \in DOMAIN payments' :
          /\ p \notin everCompleted' => payments'[p].receiptNumber = NoReceipt
          /\ p \in everCompleted' => payments'[p].receiptNumber # NoReceipt
          /\ (p \in DOMAIN payments /\ payments[p].receiptNumber # NoReceipt)
               => payments'[p].receiptNumber = payments[p].receiptNumber
     /\ \A p, q \in DOMAIN payments' :
          (p # q /\ payments'[p].receiptNumber # NoReceipt)
            => payments'[p].receiptNumber # payments'[q].receiptNumber]_vars

\* Two payments hold receipts, and one of them was settled again after its receipt
\* was made.
C6_Witness ==
  \E p, q \in DOMAIN payments :
    /\ p # q
    /\ payments[p].receiptNumber # NoReceipt
    /\ payments[q].receiptNumber # NoReceipt
    /\ payments[p].paidDate # Undef
    /\ payments[p].receiptNumber[2] < payments[p].paidDate

(***************************************************************************)
(* Ending a lease (C7, C8)                                                 *)
(***************************************************************************)
\* C7: PUT /leases/:id/terminate on an existing lease leaves the lease terminated, its
\* property available without currentTenant and currentLease, and its tenant without
\* propertyId and leaseId, whether or not the lease has pending payments.
C7_TerminateEffects ==
  [][\A id \in LeaseIds :
       (id \in DOMAIN leases /\ TerminateLease(id)) =>
         /\ last'.code = 200
         /\ leases'[id].status = "terminated"
         /\ properties'[leases[id].property].status = "available"
         /\ properties'[leases[id].property].currentTenant = NoId
         /\ properties'[leases[id].property].currentLease = NoId
         /\ users'[leases[id].tenant].propertyId = NoId
         /\ users'[leases[id].tenant].leaseId = NoId]_vars

\* A lease with a pending payment was terminated.
C7_Witness ==
  /\ last.op = "terminateLease" /\ last.code = 200
  /\ leases[last.id].status = "terminated"
  /\ \E p \in DOMAIN payments : payments[p].lease = last.id /\ payments[p].status = "pending"

\* C8: DELETE /leases/:id on an existing lease removes the lease and the payments
\* that reference it and leaves its property available without currentLease and
\* currentTenant and its tenant without leaseId and propertyId; a deleted lease never
\* comes back, and no payment ever references a lease that does not exist.
C8_DeleteEffects ==
  [][/\ \A id \in LeaseIds :
          (id \in DOMAIN leases /\ DeleteLease(id)) =>
            /\ last'.code = 200
            /\ id \notin DOMAIN leases'
            /\ properties'[leases[id].property].status = "available"
            /\ properties'[leases[id].property].currentTenant = NoId
            /\ properties'[leases[id].property].currentLease = NoId
            /\ users'[leases[id].tenant].propertyId = NoId
            /\ users'[leases[id].tenant].leaseId = NoId
     /\ \A id \in LeaseIds : (id < nextLeaseId /\ id \notin DOMAIN leases) => id \notin DOMAIN leases'
     /\ \A p \in DOMAIN payments' : payments'[p].lease \in DOMAIN leases' \cup {NoId}]_vars

\* A lease that had a settled payment was deleted, and a payment for another lease
\* was stored afterwards.
C8_Witness ==
  /\ \E id \in LeaseIds : id < nextLeaseId /\ id \notin DOMAIN leases
  /\ everCompleted \ DOMAIN payments # {}
  /\ payments # <<>>

(***************************************************************************)
(* Cross references (C9, C10)                                              *)
(***************************************************************************)
\* C9: a successful POST /leases stores the lease with status pending whatever the
\* body says, makes its property occupied with currentLease the lease and
\* currentTenant the tenant, and gives its tenant leaseId the lease and propertyId the
\* property.
C9_LeaseCreated ==
  [][\A b \in LeaseBodies :
       (last'.op = "postLease" /\ last'.code = 201 /\ PostLease(b)) =>
         /\ last'.id \in DOMAIN leases' \ DOMAIN leases
         /\ leases'[last'.id].status = "pending"
         /\ leases'[last'.id].property = b.propertyId
         /\ leases'[last'.id].tenant = b.tenantId
         /\ properties'[b.propertyId].currentLease = last'.id
         /\ properties'[b.propertyId].currentTenant = b.tenantId
         /\ properties'[b.propertyId].status = "occupied"
         /\ users'[b.tenantId].leaseId = last'.id
         /\ users'[b.tenantId].propertyId = b.propertyId]_vars

\* A lease was created on a property that another, ended lease had occupied.
C9_Witness ==
  /\ last.op = "postLease" /\ last.code = 201
  /\ leases[last.id].status = "pending"
  /\ \E other \in DOMAIN leases :
       other # last.id /\ leases[other].property = leases[last.id].property

\* C10: every property has status occupied if and only if both its currentTenant and
\* its currentLease are set.
C10_OccupiedIffReferenced ==
  \A p \in DOMAIN properties :
    properties[p].status = "occupied"
      <=> (properties[p].currentTenant # NoId /\ properties[p].currentLease # NoId)

(***************************************************************************)
(* Tenant back-references when a lease ends (C11)                          *)
(***************************************************************************)
\* C11: an operation that sets a lease's status to terminated also clears the
\* propertyId and leaseId of that lease's tenant.
C11_TerminatedClearsTenant ==
  [][\A l \in DOMAIN leases :
       (/\ l \in DOMAIN leases'
        /\ leases[l].status # "terminated"
        /\ leases'[l].status = "terminated")
       => (/\ users'[leases[l].tenant].propertyId = NoId
           /\ users'[leases[l].tenant].leaseId = NoId)]_vars

(***************************************************************************)
(* PropertySpec: properties deleted while leases and payments refer to them *)
(***************************************************************************)
\* A payment made out to a property and a tenant directly, without a lease.
DirectPaymentBodies ==
  {PaymentBody(NoId, p, 3, 1000, "cash", DueDate, Undef, NoStr) : p \in PropertyIds}

PropertyNext ==
  \/ \E b \in PropertyBodies : PostProperty(b)
  \/ \E id \in PropertyIds : DeleteProperty(id)
  \/ \E b \in TenantLeaseBodies : PostLease(b)
  \/ \E id \in LeaseIds : TerminateLease(id)
  \/ \E id \in LeaseIds : DeleteLease(id)
  \/ \E b \in DirectPaymentBodies : PostPayment(b)

PropertySpec == Init /\ [][PropertyNext]_vars

\* C12: a property that a lease or a payment references, or whose currentLease or
\* currentTenant is set, is not removed from the store by any request.
C12_ReferencedPropertyKept ==
  [][\A p \in DOMAIN properties :
       (\/ \E l \in DOMAIN leases : leases[l].property = p
        \/ \E x \in DOMAIN payments : payments[x].property = p
        \/ properties[p].currentLease # NoId
        \/ properties[p].currentTenant # NoId)
       => p \in DOMAIN properties']_vars

(***************************************************************************)
(* Callers and roles (C13)                                                 *)
(***************************************************************************)
\* authenticateToken: the token names a user that exists and is active.
Authenticated(caller) == caller \in DOMAIN users /\ users[caller].isActive

\* managerAccess of middleware/auth: admins and property managers pass.
managerAccess(caller) == users[caller].role \in {"admin", "property_manager"}

\* A route behind authenticateToken and managerAccess, its handler being `handler`.
Managed(caller, op, handler) ==
  IF ~Authenticated(caller)
  THEN Answer(op, 401, NoId, "token")
  ELSE IF ~managerAccess(caller)
  THEN Answer(op, 403, NoId, "role")
  ELSE handler

\* A variant of the handlers' role check that lets every caller through.
AnyRecord(caller, tenantId) == TRUE

\* The role check of the GET handlers: a tenant reads only what names it as tenant.
OwnRecord(caller, tenantId) ==
  ~(users[caller].role = "tenant" /\ tenantId # caller)

\* GET /api/payments/:id (the populated tenant of a payment is null when no such user
\* exists, and reading its _id throws).
GetPayment(caller, id) ==
  IF ~Authenticated(caller)
  THEN Answer("getPayment", 401, NoId, "token")
  ELSE IF id \notin DOMAIN payments
  THEN Answer("getPayment", 404, NoId, "none")
  ELSE IF users[caller].role = "tenant" /\ payments[id].tenant \notin DOMAIN users
  THEN Answer("getPayment", 500, NoId, "tenant")
  ELSE IF ~OwnRecord(caller, payments[id].tenant)
  THEN Answer("getPayment", 403, NoId, "denied")
  ELSE Answer("getPayment", 200, id, "none")

\* GET /api/payments/tenant/:tenantId : the answer is the payments of tenantId.
GetTenantPayments(caller, tenantId) ==
  IF ~Authenticated(caller)
  THEN Answer("getTenantPayments", 401, NoId, "token")
  ELSE IF ~OwnRecord(caller, tenantId)
  THEN Answer("getTenantPayments", 403, NoId, "denied")
  ELSE Answer("getTenantPayments", 200, tenantId, "none")

\* GET /api/leases/:id
GetLease(caller, id) ==
  IF ~Authenticated(caller)
  THEN Answer("getLease", 401, NoId, "token")
  ELSE IF id \notin DOMAIN leases
  THEN Answer("getLease", 404, NoId, "none")
  ELSE IF users[caller].role = "tenant" /\ leases[id].tenant \notin DOMAIN users
  THEN Answer("getLease", 500, NoId, "tenant")
  ELSE IF ~OwnRecord(caller, leases[id].tenant)
  THEN Answer("getLease", 403, NoId, "denied")
  ELSE Answer("getLease", 200, id, "none")

\* The manager, the two predefined tenants and a token of no user.
Callers == {2, 3, 4, 5}

AccessLeaseIds == {1}
AccessPaymentIds == {1, 2}
AccessPaymentBody == PaymentBody(1, NoId, NoId, 1000, "cash", DueDate, Undef, NoStr)
AccessPayBody == [paymentMethod |-> "cash", transactionId |-> NoStr, paidAmount |-> Undef]

\* The lease and payment mutations, each behind managerAccess.
Mutation(caller) ==
  \/ Managed(caller, "postLease", PostLease(DefaultLeaseBody))
  \/ \E id \in AccessLeaseIds, b \in LeaseUpdates : Managed(caller, "putLease", PutLease(id, b))
  \/ \E id \in AccessLeaseIds : Managed(caller, "activateLease", ActivateLease(id))
  \/ \E id \in AccessLeaseIds : Managed(caller, "terminateLease", TerminateLease(id))
  \/ \E id \in AccessLeaseIds : Managed(caller, "deleteLease", DeleteLease(id))
  \/ Managed(caller, "postPayment", PostPayment(AccessPaymentBody))
  \/ \E id \in AccessPaymentIds : Managed(caller, "putPayment", PutPayment(id, SameLeaseUpdate))
  \/ \E id \in AccessPaymentIds : Managed(caller, "payPayment", PayPayment(id, AccessPayBody))
  \/ \E id \in AccessPaymentIds : Managed(caller, "deletePayment", DeletePayment(id))

AccessNext ==
  \/ (properties = <<>> /\ PostProperty([status |-> NoStr, rentAmount |-> 900]))
  \/ \E caller \in Callers : Mutation(caller)
  \/ \E caller \in Callers, id \in AccessPaymentIds : GetPayment(caller, id)
  \/ \E caller \in Callers, tenantId \in {3, 4} : GetTenantPayments(caller, tenantId)
  \/ \E caller \in Callers, id \in AccessLeaseIds : GetLease(caller, id)

AccessSpec == Init /\ [][AccessNext]_vars

C14_BadRangeRejected ==
  [][\/ last'.op # "postLease"
     \/ (last'.code = 400 /\ UNCHANGED store)
     \/ \A b \in ScheduleLeaseBodies :
          ~(b.endDate < b.startDate /\ b.paymentDueDate \in 1..31 /\ PostLease(b))]_vars

(***************************************************************************)
(* C15: POST /leases with a supplied paymentDueDate outside 1..31 (0, 32,  *)
(* a negative number) is rejected: no lease is persisted and no property   *)
(* or tenant reference is changed.                                         *)
(***************************************************************************)
C15_DueDayRejected ==
  [][\/ last'.op # "postLease"
     \/ (last'.code >= 400 /\ UNCHANGED store)
     \/ \A b \in ScheduleLeaseBodies :
          ~(b.paymentDueDate \notin 1..31 /\ PostLease(b))]_vars

(***************************************************************************)
(* AmountSpec: settlements that name the amount paid                       *)
(***************************************************************************)
AmountPayBodies ==
  [paymentMethod : {"cash"}, transactionId : {NoStr, "TX1", "TX2"}, paidAmount : {Undef, 0, 500}]

AmountNext ==
  \/ (properties = <<>> /\ PostProperty([status |-> NoStr, rentAmount |-> 900]))
  \/ PostLease(DefaultLeaseBody)
  \/ PostPayment(PaymentBody(1, NoId, NoId, 1000, "cash", DueDate, Undef, NoStr))
  \/ \E id \in PaymentIds, b \in AmountPayBodies : PayPayment(id, b)

AmountSpec == Init /\ [][AmountNext]_vars

(***************************************************************************)
(* C18: a settlement sets the payment's amount to paidAmount whenever      *)
(* paidAmount is supplied, 0 included, leaves the amount alone when it is  *)
(* not supplied, and makes the status completed in both cases.             *)
(***************************************************************************)
C18_PaidAmountOverrides ==
  [][\A id \in DOMAIN payments, b \in AmountPayBodies :
       (/\ last'.op = "payPayment"
        /\ last'.code = 200
        /\ last'.id = id
        /\ PayPayment(id, b))
       => (/\ payments'[id].status = "completed"
           /\ payments'[id].amount =
                IF b.paidAmount = Undef THEN payments[id].amount ELSE b.paidAmount)]_vars

(***************************************************************************)
(* C19: every settlement that assesses a nonzero late fee (and stores the  *)
(* settled payment) persists a late_fee row: status completed, dueDate =   *)
(* paidDate = settlement time, amount = the fee, the payment's lease,      *)
(* tenant and property, and a transactionId no other payment holds, so     *)
(* the unique index never rejects the row, a body without transactionId    *)
(* included.                                                               *)
(***************************************************************************)
C19_LateRowPersisted ==
  [][\A id \in PaymentIds, b \in PayBodies :
       (/\ last'.op = "payPayment"
        /\ last'.err \notin {"duplicate_transactionId", "duplicate_receiptNumber",
                             "late_duplicate_receiptNumber"}
        /\ id \in DOMAIN payments
        /\ AssessLateFee(now, payments[id], leases) > 0
        /\ PayPayment(id, b))
       => \E p \in DOMAIN payments' \ DOMAIN payments :
            /\ payments'[p].paymentType = "late_fee"
            /\ payments'[p].status = "completed"
            /\ payments'[p].dueDate = now
            /\ payments'[p].paidDate = now
            /\ payments'[p].amount = AssessLateFee(now, payments[id], leases)
            /\ payments'[p].lease = payments[id].lease
            /\ payments'[p].tenant = payments[id].tenant
            /\ payments'[p].property = payments[id].property
            /\ payments'[p].transactionId = LateTransactionId(b.transactionId)
            /\ \A q \in DOMAIN payments' \ {p} :
                 payments'[q].transactionId # payments'[p].transactionId]_vars

(***************************************************************************)
(* C20: when the schedule step of POST /leases fails, the request is still *)
(* answered 201: the lease is persisted, the property has currentLease,    *)
(* currentTenant and status occupied of the new lease, the tenant has its  *)
(* leaseId and propertyId, and no payment exists for the lease.            *)
(***************************************************************************)
C20_ScheduleFailureKeepsLease ==
  (last.op = "postLease" /\ last.err = "schedule")
  => /\ last.code = 201
     /\ last.id \in DOMAIN leases
     /\ LET lease == leases[last.id]
        IN /\ properties[lease.property].currentLease = last.id
           /\ properties[lease.property].currentTenant = lease.tenant
           /\ properties[lease.property].status = "occupied"
           /\ users[lease.tenant].leaseId = last.id
           /\ users[lease.tenant].propertyId = lease.property
     /\ \A p \in DOMAIN payments : payments[p].lease # last.id

C20_Witness ==
  /\ last.op = "postLease"
  /\ last.err = "schedule"
  /\ last.code = 201
  /\ Len(last.built) > 1
  /\ last.id \in DOMAIN leases
  /\ payments = <<>>

(***************************************************************************)
(* POST /api/leases, one await at a time: between two awaits of a handler  *)
(* the other request's handler may run. Each read and each save is atomic. *)
(***************************************************************************)
\* res.status(code).json(...) of the request in slot r.
Finish(r, op, code, id, err) ==
  /\ calls' = [calls EXCEPT ![r].pc = "done", ![r].code = code]
  /\ last' = [op |-> op, code |-> code, id |-> id, err |-> err, built |-> <<>>]

\* A step of the request in slot r that only reads.
Proceed(r, call) ==
  /\ calls' = [calls EXCEPT ![r] = call]
  /\ UNCHANGED <<store, counters, now, everCompleted, last>>

\* await Property.findById(propertyId)
FindProperty(r, b) ==
  /\ calls[r].pc = "idle"
  /\ IF b.propertyId \notin DOMAIN properties
     THEN /\ Finish(r, "postLease", 400, NoId, "property")
          /\ UNCHANGED <<store, counters, now, everCompleted>>
     ELSE Proceed(r, [Idle EXCEPT !.op = "postLease", !.pc = "findTenant", !.body = b,
                                  !.property = properties[b.propertyId]])

\* await User.findById(tenantId)
FindTenant(r) ==
  /\ calls[r].pc = "findTenant"
  /\ LET b == calls[r].body
     IN IF ~(b.tenantId \in DOMAIN users /\ users[b.tenantId].role = "tenant")
        THEN /\ Finish(r, "postLease", 400, NoId, "tenant")
             /\ UNCHANGED <<store, counters, now, everCompleted>>
        ELSE Proceed(r, [calls[r] EXCEPT !.pc = "findOverlap", !.tenant = users[b.tenantId]])

\* await Lease.findOne({property, status in [active, pending], overlapping dates})
FindOverlap(r) ==
  /\ calls[r].pc = "findOverlap"
  /\ LET b == calls[r].body
     IN IF OverlappingLeases(leases, b.propertyId, b.startDate, b.endDate) # {}
        THEN /\ Finish(r, "postLease", 400, NoId, "overlap")
             /\ UNCHANGED <<store, counters, now, everCompleted>>
        ELSE Proceed(r, [calls[r] EXCEPT !.pc = "saveLease"])

\* await lease.save()
SaveLease(r) ==
  /\ calls[r].pc = "saveLease"
  /\ LET leaseData == LeaseData(calls[r].body, calls[r].property)
     IN IF ~ValidLease(leaseData)
        THEN /\ Finish(r, "postLease", 500, NoId, "validation")
             /\ UNCHANGED <<store, counters, now, everCompleted>>
        ELSE /\ nextLeaseId <= MaxLeases
             /\ leases' = leases @@ (nextLeaseId :> leaseData)
             /\ nextLeaseId' = nextLeaseId + 1
             /\ calls' = [calls EXCEPT ![r].pc = "saveProperty", ![r].lease = nextLeaseId]
             /\ UNCHANGED <<properties, users, payments, nextPropertyId, nextUserId,
                            nextPaymentId, now, everCompleted, last>>

\* property.currentLease = ...; await property.save()
SaveProperty(r) ==
  /\ calls[r].pc = "saveProperty"
  /\ LET b == calls[r].body
         property == calls[r].property
     IN properties' = [properties EXCEPT ![b.propertyId] =
          SaveModified(@, property, OccupyProperty(property, calls[r].lease, b.tenantId))]
  /\ calls' = [calls EXCEPT ![r].pc = "saveTenant"]
  /\ UNCHANGED <<users, leases, payments, counters, now, everCompleted, last>>

\* tenant.leaseId = ...; await tenant.save()
SaveTenant(r) ==
  /\ calls[r].pc = "saveTenant"
  /\ LET b == calls[r].body
         tenant == calls[r].tenant
     IN users' = [users EXCEPT ![b.tenantId] =
          SaveModified(@, tenant, AssignTenant(tenant, calls[r].lease, b.propertyId))]
  /\ calls' = [calls EXCEPT ![r].pc = "schedule"]
  /\ UNCHANGED <<properties, leases, payments, counters, now, everCompleted, last>>

\* await createPaymentSchedule(lease); res.status(201)
Schedule(r) ==
  /\ calls[r].pc = "schedule"
  /\ LET lease == LeaseData(calls[r].body, calls[r].property)
         schedule == createPaymentSchedule(payments, nextPaymentId, calls[r].lease, lease)
         built == BuildSchedule(calls[r].lease, lease)
     IN /\ payments' = schedule.coll
        /\ nextPaymentId' = IF schedule.ok THEN nextPaymentId + Len(built) ELSE nextPaymentId
        /\ Finish(r, "postLease", 201, calls[r].lease, IF schedule.ok THEN "none" ELSE "schedule")
  /\ UNCHANGED <<properties, users, leases, nextPropertyId, nextUserId, nextLeaseId,
                 now, everCompleted>>

(***************************************************************************)
(* LeaseRaceSpec: two POST /leases requests in flight on one property      *)
(***************************************************************************)
LeaseRaceBodies ==
  {LeaseBody(1, t, term, Undef, TRUE, Undef, NoLateFee, NoStr) : t \in {2, 3, 4}, term \in Terms}

LeaseRaceNext ==
  \/ (properties = <<>> /\ PostProperty([status |-> NoStr, rentAmount |-> 900]))
  \/ \E r \in Requests, b \in LeaseRaceBodies : FindProperty(r, b)
  \/ \E r \in Requests : FindTenant(r)
  \/ \E r \in Requests : FindOverlap(r)
  \/ \E r \in Requests : SaveLease(r)
  \/ \E r \in Requests : SaveProperty(r)
  \/ \E r \in Requests : SaveTenant(r)
  \/ \E r \in Requests : Schedule(r)

LeaseRaceSpec == Init /\ [][LeaseRaceNext]_vars

(***************************************************************************)
(* C16: two interleaved POST /leases on one property with overlapping      *)
(* dates can both pass the overlap check and both be persisted as pending  *)
(* (the witness); every lease is persisted as pending, the property's      *)
(* currentLease, currentTenant and status and the tenant's leaseId and     *)
(* propertyId are those of the request whose save ran last, and nothing    *)
(* but these saves changes them.                                           *)
(***************************************************************************)
C16_LastWriterWins ==
  [][/\ \A l \in DOMAIN leases' \ DOMAIN leases : leases'[l].status = "pending"
     /\ \A l \in DOMAIN leases : leases'[l] = leases[l]
     /\ \A r \in Requests :
          LET b == calls[r].body
          IN /\ (calls[r].pc = "saveProperty" /\ calls'[r].pc = "saveTenant")
                  => /\ properties'[b.propertyId].currentLease = calls[r].lease
                     /\ properties'[b.propertyId].currentTenant = b.tenantId
                     /\ properties'[b.propertyId].status = "occupied"
             /\ (calls[r].pc = "saveTenant" /\ calls'[r].pc = "schedule")
                  => /\ users'[b.tenantId].leaseId = calls[r].lease
                     /\ users'[b.tenantId].propertyId = b.propertyId
     /\ (\A r \in Requests : ~(calls[r].pc = "saveProperty" /\ calls'[r].pc = "saveTenant"))
          => \A p \in DOMAIN properties : properties'[p] = properties[p]
     /\ (\A r \in Requests : ~(calls[r].pc = "saveTenant" /\ calls'[r].pc = "schedule"))
          => users' = users]_vars

\* Both requests answered 201, their leases overlap and are pending, and the property
\* refers to the lease that was saved first.
C16_Witness ==
  /\ \A r \in Requests : calls[r].pc = "done" /\ calls[r].code = 201
  /\ DOMAIN leases = {1, 2}
  /\ leases[1].property = leases[2].property
  /\ DatesOverlap(leases[1], leases[2].startDate, leases[2].endDate)
  /\ leases[1].status = "pending" /\ leases[2].status = "pending"
  /\ properties[leases[1].property].currentLease = 1
  /\ users[leases[2].tenant].leaseId = 2

(***************************************************************************)
(* PUT /api/payments/:id/pay, one await at a time                          *)
(***************************************************************************)
\* await Payment.findById(req.params.id); the overdue test on the loaded document
FindPayment(r, id, b) ==
  /\ calls[r].pc = "idle"
  /\ IF id \notin DOMAIN payments
     THEN /\ Finish(r, "payPayment", 404, NoId, "none")
          /\ UNCHANGED <<store, counters, now, everCompleted>>
     ELSE LET call == [Idle EXCEPT !.op = "payPayment", !.id = id, !.body = b,
                                   !.payment = payments[id]]
          IN IF now > payments[id].dueDate
             THEN Proceed(r, [call EXCEPT !.pc = "findLease"])
             ELSE Proceed(r, [call EXCEPT !.pc = "savePayment",
                                          !.doc = Settle(payments[id], b, now, 0)])

\* await Lease.findById(payment.lease); the fee and the fields set on the document
FindLease(r) ==
  /\ calls[r].pc = "findLease"
  /\ LET lateFee == AssessLateFee(now, calls[r].payment, leases)
     IN Proceed(r, [calls[r] EXCEPT !.pc = "savePayment", !.lateFee = lateFee,
                      !.doc = Settle(calls[r].payment, calls[r].body, now, lateFee)])

\* A variant of the write that keeps a receiptNumber the store already holds.
WritePaymentKeepReceipt(coll, id, loaded, doc, time, random) ==
  LET hooked == PreSave(doc, time, random)
      kept == IF coll[id].receiptNumber # NoReceipt
              THEN [hooked EXCEPT !.receiptNumber = loaded.receiptNumber]
              ELSE hooked
  IN IF ~ValidPayment(doc) THEN [err |-> "validation", coll |-> coll, receipt |-> NoReceipt]
     ELSE IF DuplicateKey(coll, id, hooked) # "none"
     THEN [err |-> DuplicateKey(coll, id, hooked), coll |-> coll, receipt |-> NoReceipt]
     ELSE [err |-> "none",
           coll |-> [coll EXCEPT ![id] = SaveModified(@, loaded, kept)],
           receipt |-> hooked.receiptNumber]

\* payment.save() of a document loaded earlier: validation, the pre-save hook on the
\* local document, the unique indexes, then the write of the modified paths.
WritePayment(coll, id, loaded, doc, time, random) ==
  LET hooked == PreSave(doc, time, random)
  IN IF ~ValidPayment(doc) THEN [err |-> "validation", coll |-> coll, receipt |-> NoReceipt]
     ELSE IF DuplicateKey(coll, id, hooked) # "none"
     THEN [err |-> DuplicateKey(coll, id, hooked), coll |-> coll, receipt |-> NoReceipt]
     ELSE [err |-> "none",
           coll |-> [coll EXCEPT ![id] = SaveModified(@, loaded, hooked)],
           receipt |-> hooked.receiptNumber]

\* await payment.save()
SavePaid(r) ==
  /\ calls[r].pc = "savePayment"
  /\ \E random \in Randoms(payments, now) :
       LET written == WritePayment(payments, calls[r].id, calls[r].payment, calls[r].doc,
                                   now, random)
       IN IF written.err # "none"
          THEN /\ Finish(r, "payPayment", 500, NoId, written.err)
               /\ UNCHANGED <<store, counters, now, everCompleted>>
          ELSE /\ payments' = written.coll
               /\ everCompleted' = everCompleted \cup Completed(written.coll)
               /\ calls' = [calls EXCEPT ![r].pc = "saveLateFee", ![r].receipt = written.receipt]
               /\ UNCHANGED <<properties, users, leases, counters, now, last>>

\* if (lateFee > 0) await lateFeePayment.save(); res.json(...)
SaveLateFee(r) ==
  /\ calls[r].pc = "saveLateFee"
  /\ IF calls[r].lateFee > 0
     THEN \E random \in Randoms(payments, now) :
            LET saved == SavePayment(payments, nextPaymentId,
                           LateFeePayment(calls[r].doc, calls[r].body, now, calls[r].lateFee),
                           now, random)
            IN IF saved.err # "none"
               THEN /\ Finish(r, "payPayment", 500, calls[r].id, "late_" \o saved.err)
                    /\ UNCHANGED <<store, counters, now, everCompleted>>
               ELSE /\ nextPaymentId <= MaxPayments
                    /\ payments' = saved.coll
                    /\ nextPaymentId' = nextPaymentId + 1
                    /\ everCompleted' = everCompleted \cup Completed(saved.coll)
                    /\ Finish(r, "payPayment", 200, calls[r].id, "none")
                    /\ UNCHANGED <<properties, users, leases, nextPropertyId, nextUserId,
                                   nextLeaseId, now>>
     ELSE /\ Finish(r, "payPayment", 200, calls[r].id, "none")
          /\ UNCHANGED <<store, counters, now, everCompleted>>

(***************************************************************************)
(* PayRaceSpec: two settlements in flight on the payments of one lease     *)
(***************************************************************************)
PayRaceBodies ==
  [paymentMethod : {"cash"}, transactionId : {NoStr, "TX1", "TX2"}, paidAmount : {Undef}]

PayRaceNext ==
  \/ (properties = <<>> /\ PostProperty([status |-> NoStr, rentAmount |-> 900]))
  \/ (leases = <<>> /\ PostLease(DefaultLeaseBody))
  \/ (payments = <<>> /\ PostPayment(PaymentBody(1, NoId, NoId, 1000, "cash", DueDate, Undef, NoStr)))
  \/ Tick(LateInstant)
  \/ \E r \in Requests, id \in PaymentIds, b \in PayRaceBodies : FindPayment(r, id, b)
  \/ \E r \in Requests : FindLease(r)
  \/ \E r \in Requests : SavePaid(r)
  \/ \E r \in Requests : SaveLateFee(r)

PayRaceSpec == Init /\ [][PayRaceNext]_vars

(***************************************************************************)
(* C17: two interleaved settlements of one overdue payment can both assess *)
(* the late fee and create two late_fee rows, each generating its own      *)
(* receiptNumber (the witness); every payment.save() of a request that     *)
(* loaded the payment without receiptNumber stores the receiptNumber this  *)
(* request generated, whatever the store held, and every late row saved    *)
(* is one new late_fee payment of the settled payment's lease.             *)
(***************************************************************************)
C17_LastReceiptStored ==
  [][\A r \in Requests :
       /\ (calls[r].pc = "savePayment" /\ calls'[r].pc = "saveLateFee")
            => /\ payments'[calls[r].id].status = "completed"
               /\ calls'[r].receipt # NoReceipt
               /\ calls[r].payment.receiptNumber = NoReceipt
                    => /\ payments'[calls[r].id].receiptNumber = calls'[r].receipt
                       /\ calls'[r].receipt[2] = now
       /\ (calls[r].pc = "saveLateFee" /\ calls[r].lateFee > 0 /\ calls'[r].code = 200)
            => /\ Cardinality(DOMAIN payments' \ DOMAIN payments) = 1
               /\ \A p \in DOMAIN payments' \ DOMAIN payments :
                    /\ payments'[p].paymentType = "late_fee"
                    /\ payments'[p].amount = calls[r].lateFee
                    /\ payments'[p].lease = calls[r].payment.lease]_vars

\* Both requests settled payment 1 late and answered 200: two late_fee rows exist, the
\* requests generated different receipt numbers and the payment holds the second one.
C17_Witness ==
  /\ \A r \in Requests : /\ calls[r].pc = "done" /\ calls[r].code = 200
                         /\ calls[r].op = "payPayment" /\ calls[r].id = 1
                         /\ calls[r].lateFee > 0
                         /\ calls[r].payment.receiptNumber = NoReceipt
  /\ Cardinality({p \in DOMAIN payments : payments[p].paymentType = "late_fee"}) = 2
  /\ calls[1].receipt # calls[2].receipt
  /\ payments[1].receiptNumber = calls[2].receipt

LifecycleLeaseBodies ==
  {LeaseBody(1, t, term, Undef, TRUE, Undef, NoLateFee, NoStr) : t \in {3, 4}, term \in Terms}

LifecycleUpdates ==
  {[status |-> st, startDate |-> Undef, endDate |-> Undef] : st \in LeaseStatuses}

LifecycleNext ==
  \/ (properties = <<>> /\ PostProperty([status |-> NoStr, rentAmount |-> 900]))
  \/ \E b \in LifecycleLeaseBodies : PostLease(b)
  \/ \E id \in LeaseIds, b \in LifecycleUpdates : PutLease(id, b)
  \/ \E id \in LeaseIds : ActivateLease(id)
  \/ \E id \in LeaseIds : TerminateLease(id)
  \/ (payments = <<>> /\ PostPayment(PaymentBody(1, NoId, NoId, 1000, "cash", DueDate, Undef, NoStr)))

LifecycleSpec == Init /\ [][LifecycleNext]_vars

(***************************************************************************)
(* C22: PUT /leases/:id/activate on an existing lease succeeds whatever    *)
(* the lease's status, sets the status to active and changes no property,  *)
(* tenant or payment, nor another lease; a terminated lease becomes active *)
(* again while its property stays available with no currentLease.          *)
(***************************************************************************)
C22_ActivateAnyStatus ==
  [][\A id \in DOMAIN leases :
       (last'.op = "activateLease" /\ ActivateLease(id))
       => /\ last'.code = 200
          /\ leases' = [leases EXCEPT ![id].status = "active"]
          /\ UNCHANGED <<properties, users, payments>>]_vars

\* The only lease ever created was terminated and then activated: it is active while
\* its property is available and names no lease and no tenant.
C22_Witness ==
  /\ last.op = "activateLease" /\ last.code = 200
  /\ nextLeaseId = 2
  /\ leases[1].status = "active"
  /\ properties[leases[1].property].status = "available"
  /\ properties[leases[1].property].currentLease = NoId
  /\ users[leases[1].tenant].leaseId = NoId
  /\ payments # <<>>

(***************************************************************************)
(* C23: PUT /leases/:id/terminate leaves every payment row as it was: the  *)
(* same payments with the same status, amount, dueDate and lease, so the   *)
(* pending payments stay pending against the terminated lease.             *)
(***************************************************************************)
C23_TerminateKeepsPayments ==
  [][\A id \in LeaseIds :
       (last'.op = "terminateLease" /\ TerminateLease(id))
       => /\ DOMAIN payments' = DOMAIN payments
          /\ \A p \in DOMAIN payments :
               /\ payments'[p].status = payments[p].status
               /\ payments'[p].amount = payments[p].amount
               /\ payments'[p].dueDate = payments[p].dueDate
               /\ payments'[p].lease = payments[p].lease]_vars

\* A lease was terminated and a pending payment still refers to it.
C23_Witness ==
  /\ last.op = "terminateLease" /\ last.code = 200
  /\ leases[last.id].status = "terminated"
  /\ \E p \in DOMAIN payments : payments[p].lease = last.id /\ payments[p].status = "pending"

(***************************************************************************)
(* DirectPaySpec: settlements of payments with and without a lease         *)
(***************************************************************************)
DirectPayNext ==
  \/ (properties = <<>> /\ PostProperty([status |-> NoStr, rentAmount |-> 900]))
  \/ (nextLeaseId = 1 /\ PostLease(DefaultLeaseBody))
  \/ PostPayment(PaymentBody(NoId, 1, 3, 1000, "cash", DueDate, Undef, NoStr))
  \/ PostPayment(PaymentBody(1, NoId, NoId, 1000, "cash", DueDate, Undef, NoStr))
  \/ \E id \in LeaseIds : DeleteLease(id)
  \/ \E id \in PaymentIds : PayPayment(id, AccessPayBody)
  \/ Tick(LateInstant)

DirectPaySpec == Init /\ [][DirectPayNext]_vars

(***************************************************************************)
(* C24: PUT /payments/:id/pay on a payment without a lease reference, or   *)
(* whose lease does not exist, assesses a late fee of 0 however late it    *)
(* is: the fee the handler computes and answers is 0, payment.lateFee is 0 *)
(* and no late_fee row is created.                                         *)
(***************************************************************************)
C24_NoLeaseNoLateFee ==
  [][\A id \in DOMAIN payments :
       (/\ last'.op = "payPayment"
        /\ now' = now
        /\ leases' = leases
        /\ payments[id].lease \notin DOMAIN leases
        /\ PayPayment(id, AccessPayBody))
       => /\ AssessLateFee(now, payments[id], leases) = 0
          /\ DOMAIN payments' = DOMAIN payments
          /\ last'.code = 200 => payments'[id].lateFee = 0]_vars

\* A payment without a lease was settled more than the grace period after its due
\* date: its lateFee is 0 and there is no late_fee payment.
C24_Witness ==
  /\ last.op = "payPayment" /\ last.code = 200
  /\ payments[last.id].lease = NoId
  /\ payments[last.id].status = "completed"
  /\ payments[last.id].paidDate = LateInstant
  /\ payments[last.id].dueDate = DueDate
  /\ payments[last.id].lateFee = 0
  /\ \A p \in DOMAIN payments : payments[p].paymentType # "late_fee"

(***************************************************************************)
(* C25: in every reachable state a payment's paidDate is null unless the   *)
(* payment has been settled: a payment with paidDate set has status        *)
(* completed and a payment with status completed has a paidDate.           *)
(***************************************************************************)
C25_PaidDateIffCompleted ==
  \A p \in DOMAIN payments :
    (payments[p].paidDate # Undef) <=> (payments[p].status = "completed")

(***************************************************************************)
(* C26: createPaymentSchedule terminates for every lease with a            *)
(* paymentDueDate in 1..31: the due dates it builds are finitely many (at  *)
(* most one per 28 days of the lease), strictly increasing, and all lie    *)
(* within [lease.startDate, lease.endDate].                                *)
(***************************************************************************)
C26_ScheduleWithinLease ==
  (last.op = "postLease" /\ last.code = 201 /\ last.id \in DOMAIN leases)
  => LET lease == leases[last.id]
         due(i) == last.built[i].dueDate
     IN /\ last.built = BuildSchedule(last.id, lease)
        /\ \A i \in DOMAIN last.built :
             /\ due(i) >= lease.startDate
             /\ due(i) <= lease.endDate
             /\ i > 1 => due(i) > due(i - 1)
        /\ Len(last.built) > 0
             => (Len(last.built) - 1) * 28 * TicksPerDay <= lease.endDate - lease.startDate

\* A schedule of several months whose first due date was moved to the month after the
\* start month.
C26_Witness ==
  /\ last.op = "postLease" /\ last.code = 201 /\ last.id \in DOMAIN leases
  /\ Len(last.built) >= 3
  /\ leases[last.id].paymentDueDate < getDate(leases[last.id].startDate)
  /\ getMonth(last.built[1].dueDate) # getMonth(leases[last.id].startDate)

(***************************************************************************)
(* C27: across a sequential series of PUT /payments/:id/pay calls on one   *)
(* payment at most one late_fee row is created for it, and a pay call on a *)
(* payment that an earlier call completed creates no payment and does not  *)
(* change its paidDate, lateFee or amount.                                 *)
(***************************************************************************)
C27_RepeatedPayIdempotent ==
  [][\A id \in DOMAIN payments, b \in PayBodies :
       (/\ last'.op = "payPayment"
        /\ now' = now
        /\ payments[id].status = "completed"
        /\ payments[id].paidDate # Undef
        /\ PayPayment(id, b))
       => /\ DOMAIN payments' = DOMAIN payments
          /\ payments'[id].paidDate = payments[id].paidDate
          /\ payments'[id].lateFee = payments[id].lateFee
          /\ payments'[id].amount = payments[id].amount]_vars

(***************************************************************************)
(* C28: settlement is all-or-nothing about the late-fee row: after a       *)
(* PUT /payments/:id/pay request has finished, with 200 or with 500, a     *)
(* completed payment with lateFee > 0 has a persisted late_fee row (same   *)
(* lease, amount = the fee, dueDate = the payment's paidDate), and a       *)
(* request answered 500 leaves the payment's status, paidDate and lateFee  *)
(* as they were (stated for the requests in which no receipt number is     *)
(* drawn twice).                                                           *)
(***************************************************************************)
C28_SettlementAllOrNothing ==
  [][\A id \in DOMAIN payments, b \in PayBodies :
       (/\ last'.op = "payPayment"
        /\ last'.err \notin {"duplicate_receiptNumber", "late_duplicate_receiptNumber"}
        /\ now' = now
        /\ PayPayment(id, b))
       => /\ (payments'[id].status = "completed" /\ payments'[id].lateFee > 0)
               => \E q \in DOMAIN payments' :
                    /\ payments'[q].paymentType = "late_fee"
                    /\ payments'[q].lease = payments'[id].lease
                    /\ payments'[q].amount = payments'[id].lateFee
                    /\ payments'[q].dueDate = payments'[id].paidDate
          /\ last'.code = 500
               => /\ payments'[id].status = payments[id].status
                  /\ payments'[id].paidDate = payments[id].paidDate
                  /\ payments'[id].lateFee = payments[id].lateFee]_vars

(***************************************************************************)
(* C29: terminating or deleting a lease L that is not the current lease of *)
(* its property (currentLease names another lease) leaves the property's   *)
(* currentLease, currentTenant and status as they were, and leaves alone   *)
(* the leaseId and propertyId of L's tenant when that tenant's leaseId     *)
(* names another lease.                                                    *)
(***************************************************************************)
C29_OtherLeaseUntouched ==
  [][\A id \in DOMAIN leases :
       (/\ last'.op \in {"terminateLease", "deleteLease"}
        /\ last'.id = id
        /\ (TerminateLease(id) \/ DeleteLease(id)))
       => LET p == leases[id].property
              t == leases[id].tenant
          IN /\ (p \in DOMAIN properties /\ properties[p].currentLease \notin {NoId, id})
                  => properties'[p] = properties[p]
             /\ (t \in DOMAIN users /\ users[t].leaseId \notin {NoId, id})
                  => users'[t] = users[t]]_vars

(***************************************************************************)
(* C30: after any sequence of lease and tenant operations, a property's    *)
(* currentLease, when set, names an existing lease of that property whose  *)
(* tenant is the property's currentTenant and whose status is pending or   *)
(* active.                                                                 *)
(***************************************************************************)
C30_CurrentLeaseConsistent ==
  \A p \in DOMAIN properties :
    properties[p].currentLease # NoId
    => /\ properties[p].currentLease \in DOMAIN leases
       /\ leases[properties[p].currentLease].property = p
       /\ leases[properties[p].currentLease].tenant = properties[p].currentTenant
       /\ leases[properties[p].currentLease].status \in {"pending", "active"}

====
